---- MODULE Spec2Model ----
(***************************************************************************)
(* The local provider's convergence engine (provider/local/converge.go):   *)
(* converge(app) and convergePrune() running under the package-level       *)
(* convergeLock against a container runtime, together with the container   *)
(* synthesis functions and the manifest helpers they use.                  *)
(*                                                                         *)
(* Text built with fmt.Sprintf is a sequence of tokens (the arguments and  *)
(* the literal separators of the format), so two texts are equal exactly   *)
(* when their token sequences are; the empty string is <<>>.               *)
(***************************************************************************)
EXTENDS Integers, Sequences, FiniteSets, TLC

\* ------------------------------------------------------------------ bounds

\* Invocations of converge / convergePrune started in one behaviour.
MaxCalls == 2
\* Steps of the other actors (app create / delete, promote, one-off start / exit).
MaxEnv == 1
\* Containers the runtime starts in one behaviour, beyond the initial ones.
MaxStarts == 3

\* ------------------------------------------------------------------ helpers

Range(s) == {s[i] : i \in DOMAIN s}

RECURSIVE Flatten(_)
\* fmt.Sprintf with %s verbs only: the concatenation of its parts.
Flatten(parts) ==
  IF parts = <<>> THEN <<>> ELSE Head(parts) \o Flatten(Tail(parts))

\* strconv.Itoa / fmt.Sprintf("%d", i).
Itoa(n) == ToString(n)

\* Index of the first "=" token of a text, 0 when there is none.
IndexEq(e) ==
  IF \E i \in DOMAIN e : e[i] = "="
  THEN CHOOSE i \in DOMAIN e : e[i] = "=" /\ \A j \in 1..(i - 1) : e[j] # "="
  ELSE 0

\* strings.SplitN(e, "=", 2).
SplitN2(e) ==
  IF IndexEq(e) = 0 THEN <<e>>
  ELSE <<SubSeq(e, 1, IndexEq(e) - 1), SubSeq(e, IndexEq(e) + 1, Len(e))>>

RECURSIVE TrimLeft(_)
TrimLeft(s) == IF s # <<>> /\ Head(s) = " " THEN TrimLeft(Tail(s)) ELSE s

RECURSIVE TrimRight(_)
TrimRight(s) ==
  IF s # <<>> /\ s[Len(s)] = " " THEN TrimRight(SubSeq(s, 1, Len(s) - 1)) ELSE s

\* strings.TrimSpace on a text whose blanks are " " tokens.
TrimSpace(s) == TrimRight(TrimLeft(s))

\* strings.ToUpper on the tokens the manifests below use.
UpperTok(t) ==
  CASE t = "db" -> "DB"
    [] t = "cache" -> "CACHE"
    [] t = "web" -> "WEB"
    [] OTHER -> t

ToUpper(s) == [i \in DOMAIN s |-> UpperTok(s[i])]

\* ------------------------------------------------------------------ provider

VARIABLE rack      \* p.Name of the provider, set when it is constructed

\* p.Name: the rack label of this provider; p.Version.
RackName == rack
ProviderVersion == "dev"
\* sys.Image returned by p.SystemGet().
SystemImage == <<"convox/praxis">>

StageDevelopment == 0
StageTest == 1
StageProduction == 2

\* ------------------------------------------------------------------ catalog

resourcePort(kind) ==
  CASE kind = "postgres" -> [err |-> "", port |-> 5432]
    [] kind = "redis" -> [err |-> "", port |-> 6379]
    [] OTHER -> [err |-> "unknown resource type", port |-> 0]

resourceURL(app, kind, name) ==
  CASE kind = "postgres" ->
         [err |-> "",
          url |-> Flatten(<< <<"postgres", "://", "postgres:password", "@">>, <<name>>,
                             <<".resource.">>, <<app>>,
                             <<".", "convox", ":", "5432", "/app?sslmode=disable">> >>)]
    [] kind = "redis" ->
         [err |-> "",
          url |-> Flatten(<< <<"redis", "://">>, <<name>>, <<".resource.">>, <<app>>,
                             <<".", "convox", ":", "6379", "/0">> >>)]
    [] OTHER -> [err |-> "unknown resource type", url |-> <<>>]

resourceVolumes(app, kind, name) ==
  CASE kind = "postgres" ->
         [err |-> "",
          vols |-> << Flatten(<< <<"/var/convox/">>, <<app>>, <<"/resource/">>, <<name>>,
                                 <<":/var/lib/postgresql/data">> >>) >>]
    [] kind = "redis" -> [err |-> "", vols |-> <<>>]
    [] OTHER -> [err |-> "unknown resource type", vols |-> <<>>]

\* ------------------------------------------------------------------ manifest

\* parseEnv: the ambient entries of the form K=V, as a map from K to V.
parseEnv(env) ==
  LET ks == {SplitN2(env[i])[1] : i \in {j \in DOMAIN env : Len(SplitN2(env[j])) = 2}}
      last(k) == CHOOSE i \in DOMAIN env :
                   /\ Len(SplitN2(env[i])) = 2 /\ SplitN2(env[i])[1] = k
                   /\ \A j \in DOMAIN env :
                        (Len(SplitN2(env[j])) = 2 /\ SplitN2(env[j])[1] = k) => j <= i
  IN [k \in ks |-> SplitN2(env[last(k)])[2]]

RECURSIVE EnvLoopLenient(_, _, _)
\* The ok of the lookup of a required key not looked at: a missing key resolves to
\* the empty text.
EnvLoopLenient(decl, penv, full) ==
  IF decl = <<>> THEN [err |-> "", env |-> full]
  ELSE LET parts == SplitN2(Head(decl))
           k == parts[1]
       IN EnvLoopLenient(Tail(decl), penv,
            [x \in DOMAIN full \cup {k} |->
               IF x = k THEN (IF k \in DOMAIN penv THEN penv[k]
                              ELSE IF Len(parts) = 1 THEN <<>> ELSE parts[2])
               ELSE full[x]])

RECURSIVE EnvLoop(_, _, _)
\* The loop of Service.Env over the declared entries, left to right.
EnvLoop(decl, penv, full) ==
  IF decl = <<>> THEN [err |-> "", env |-> full]
  ELSE LET parts == SplitN2(Head(decl))
           k == parts[1]
       IN IF Len(parts) = 1
          THEN IF k \notin DOMAIN penv
               THEN [err |-> "required env", env |-> <<>>]
               ELSE EnvLoop(Tail(decl), penv,
                            [x \in DOMAIN full \cup {k} |-> IF x = k THEN penv[k] ELSE full[x]])
          ELSE EnvLoop(Tail(decl), penv,
                       [x \in DOMAIN full \cup {k} |->
                          IF x = k THEN (IF k \in DOMAIN penv THEN penv[k] ELSE parts[2])
                          ELSE full[x]])

\* Service.Env(env).
ServiceEnv(s, env) == EnvLoop(s.Environment, parseEnv(env), <<>>)

\* strconv.Quote, the %q verb: the text between double quotes, its double quotes and
\* backslashes escaped.
EscapeTok(t) ==
  CASE t = "\"" -> <<"\\", "\"">>
    [] t = "\\" -> <<"\\", "\\">>
    [] OTHER -> <<t>>

Quote(s) == <<"\"">> \o Flatten([k \in DOMAIN s |-> EscapeTok(s[k])]) \o <<"\"">>

RECURSIVE Join(_)
\* The elements one after the other with a blank between two of them.
Join(elems) ==
  IF elems = <<>> THEN <<>>
  ELSE IF Len(elems) = 1 THEN elems[1]
  ELSE (elems[1] \o <<" ">>) \o Join(Tail(elems))

\* The %v verb on a []string: the elements between brackets, blanks between them.
FormatSlice(elems) == (<<"[">> \o Join(elems)) \o <<"]">>

\* The text Service.BuildHash takes the SHA-1 of.
BuildHashInput(s) ==
  Flatten(<< <<"build[path=">>, Quote(s.Build.Path), <<", args=">>, FormatSlice(s.Build.Args),
             <<"] image=">>, Quote(s.Image) >>)

\* Services.Find(name), as the index of the first service of that name (0: none).
ServicesFind(ss, name) ==
  IF \E i \in DOMAIN ss : ss[i].Name = name
  THEN CHOOSE i \in DOMAIN ss : ss[i].Name = name /\ \A j \in 1..(i - 1) : ss[j].Name # name
  ELSE 0

\* m.ServiceEnvironment(name): the named service's Env over the ambient environment.
ServiceEnvironment(m, name, ambient) ==
  IF ServicesFind(m.Services, name) = 0
  THEN [err |-> "could not find service", env |-> <<>>]
  ELSE ServiceEnv(m.Services[ServicesFind(m.Services, name)], ambient)

\* ------------------------------------------------------------------ synthesis

\* The container struct; Id is 0 until containerConverge returns one.
Container(name, hostname, port, memory, image, command, env, volumes, labels) ==
  [Name |-> name, Hostname |-> hostname, Port |-> port, Memory |-> memory,
   Image |-> image, Command |-> command, Env |-> env, Volumes |-> volumes,
   Labels |-> labels, Id |-> 0]

\* The container one endpoint of a balancer is synthesized into.
BalancerContainer(b, e, command, app, release) ==
  Container(Flatten(<< <<RackName>>, <<".">>, <<app>>, <<".balancer.">>, <<b.Name>> >>),
            Flatten(<< <<b.Name>>, <<".balancer.">>, <<app>>, <<".">>, <<RackName>> >>),
            [Host |-> 443, Container |-> 3000], 64, SystemImage, command, <<>>, <<>>,
            ("convox.rack" :> RackName) @@ ("convox.version" :> ProviderVersion) @@
            ("convox.app" :> app) @@ ("convox.release" :> release) @@
            ("convox.type" :> "balancer") @@ ("convox.name" :> b.Name) @@
            ("convox.port" :> e.Port))

RECURSIVE BalancerLoop(_, _, _, _, _, _)
\* The nested loops of balancerContainers: balancer bi, endpoint ei, result so far cs.
BalancerLoop(balancers, bi, ei, app, release, cs) ==
  IF bi > Len(balancers) THEN [err |-> "", cs |-> cs]
  ELSE IF ei > Len(balancers[bi].Endpoints)
  THEN BalancerLoop(balancers, bi + 1, 1, app, release, cs)
  ELSE LET b == balancers[bi]
           e == b.Endpoints[ei]
       IN CASE e.Redirect # "" ->
                 BalancerLoop(balancers, bi, ei + 1, app, release,
                   Append(cs, BalancerContainer(b, e,
                     <<"balancer", e.Protocol, "redirect", e.Redirect>>, app, release)))
            [] e.Redirect = "" /\ e.Target # "" ->
                 BalancerLoop(balancers, bi, ei + 1, app, release,
                   Append(cs, BalancerContainer(b, e,
                     <<"balancer", e.Protocol, "target", e.Target>>, app, release)))
            [] OTHER -> [err |-> "invalid balancer endpoint", cs |-> <<>>]

\* The test-stage guard of balancerContainers left out.
balancerContainersInTest(balancers, app, release, stage, sysOk) ==
  IF ~sysOk THEN [err |-> "system get", cs |-> <<>>]
  ELSE BalancerLoop(balancers, 1, 1, app, release, <<>>)

\* sysOk: whether p.SystemGet() succeeds.
balancerContainers(balancers, app, release, stage, sysOk) ==
  IF stage = StageTest THEN [err |-> "", cs |-> <<>>]
  ELSE IF ~sysOk THEN [err |-> "system get", cs |-> <<>>]
  ELSE BalancerLoop(balancers, 1, 1, app, release, <<>>)

RECURSIVE ResourceLoop(_, _, _, _)
ResourceLoop(resources, app, release, cs) ==
  IF resources = <<>> THEN [err |-> "", cs |-> cs]
  ELSE LET r == Head(resources)
           rp == resourcePort(r.Type)
           vs == resourceVolumes(app, r.Type, r.Name)
       IN IF rp.err # "" THEN [err |-> rp.err, cs |-> <<>>]
          ELSE IF vs.err # "" THEN [err |-> vs.err, cs |-> <<>>]
          ELSE ResourceLoop(Tail(resources), app, release,
                 Append(cs, Container(
                   Flatten(<< <<RackName>>, <<".">>, <<app>>, <<".resource.">>, <<r.Name>> >>),
                   Flatten(<< <<r.Name>>, <<".resource.">>, <<app>>, <<".">>, <<RackName>> >>),
                   [Host |-> rp.port, Container |-> rp.port], 0,
                   <<"convox/", r.Type>>, <<>>, <<>>, vs.vols,
                   ("convox.rack" :> RackName) @@ ("convox.version" :> ProviderVersion) @@
                   ("convox.app" :> app) @@ ("convox.release" :> release) @@
                   ("convox.type" :> "resource") @@ ("convox.name" :> r.Name) @@
                   ("convox.resource" :> r.Type))))

resourceContainers(resources, app, release) == ResourceLoop(resources, app, release, <<>>)

\* The endpoint container of a service that declares a port.
EndpointContainer(s, app, release) ==
  Container(Flatten(<< <<RackName>>, <<".">>, <<app>>, <<".endpoint.">>, <<s.Name>> >>),
            Flatten(<< <<s.Name>>, <<".">>, <<app>>, <<".">>, <<RackName>> >>),
            [Host |-> 443, Container |-> 3000], 64, SystemImage,
            <<"balancer", "https", "target",
              Flatten(<< <<s.Port.Scheme>>, <<"://">>, <<s.Name>>, <<":">>,
                         <<Itoa(s.Port.Port)>> >>)>>,
            <<>>, <<>>,
            ("convox.rack" :> RackName) @@ ("convox.version" :> ProviderVersion) @@
            ("convox.app" :> app) @@ ("convox.release" :> release) @@
            ("convox.type" :> "endpoint") @@ ("convox.name" :> s.Name) @@
            ("convox.port" :> Itoa(s.Port.Port)))

RECURSIVE ResourceEnvKeepDeclared(_, _, _, _, _)
\* The URL written only when the key is not in the environment yet: a variable the
\* service declares under the same key stays.
ResourceEnvKeepDeclared(srs, si, mrs, ri, st) ==
  IF si > Len(srs) THEN [err |-> "", env |-> st.env]
  ELSE IF ri > Len(mrs) THEN ResourceEnvKeepDeclared(srs, si + 1, mrs, 1, st)
  ELSE IF mrs[ri].Name # srs[si] THEN ResourceEnvKeepDeclared(srs, si, mrs, ri + 1, st)
  ELSE LET u == resourceURL(st.app, mrs[ri].Type, mrs[ri].Name)
           k == ToUpper(<<srs[si]>>) \o <<"_URL">>
       IN IF u.err # "" THEN [err |-> u.err, env |-> <<>>]
          ELSE ResourceEnvKeepDeclared(srs, si, mrs, ri + 1,
                 [st EXCEPT !.env = [x \in DOMAIN st.env \cup {k} |->
                                       IF x \in DOMAIN st.env THEN st.env[x] ELSE u.url]])

RECURSIVE ResourceEnv(_, _, _, _, _)
\* "add resources": the loops over s.Resources (position si) and m.Resources (position ri).
ResourceEnv(srs, si, mrs, ri, st) ==
  IF si > Len(srs) THEN [err |-> "", env |-> st.env]
  ELSE IF ri > Len(mrs) THEN ResourceEnv(srs, si + 1, mrs, 1, st)
  ELSE IF mrs[ri].Name # srs[si] THEN ResourceEnv(srs, si, mrs, ri + 1, st)
  ELSE LET u == resourceURL(st.app, mrs[ri].Type, mrs[ri].Name)
           k == ToUpper(<<srs[si]>>) \o <<"_URL">>
       IN IF u.err # "" THEN [err |-> u.err, env |-> <<>>]
          ELSE ResourceEnv(srs, si, mrs, ri + 1,
                 [st EXCEPT !.env = [x \in DOMAIN st.env \cup {k} |->
                                       IF x = k THEN u.url ELSE st.env[x]]])

\* The replica container number n of a service.
Replica(s, app, release, build, cmd, e, n) ==
  Container(Flatten(<< <<RackName>>, <<".">>, <<app>>, <<".service.">>, <<s.Name>>,
                       <<".">>, <<Itoa(n)>> >>),
            <<>>, [Host |-> 0, Container |-> 0], s.Scale.Memory,
            Flatten(<< <<RackName>>, <<"/">>, <<app>>, <<"/">>, <<s.Name>>, <<":">>,
                       <<build>> >>),
            cmd, e, s.Volumes,
            ("convox.rack" :> RackName) @@ ("convox.version" :> ProviderVersion) @@
            ("convox.app" :> app) @@ ("convox.release" :> release) @@
            ("convox.type" :> "service") @@ ("convox.name" :> s.Name) @@
            ("convox.service" :> s.Name) @@ ("convox.index" :> Itoa(n)))

\* The loop over the replicas run with i < Min: the last replica is missing.
ReplicasButLast(s, app, release, build, cmd, e) ==
  [n \in 1..(s.Scale.Count.Min - 1) |-> Replica(s, app, release, build, cmd, e, n)]

\* The replica containers 1..Min of a service.
Replicas(s, app, release, build, cmd, e) ==
  [n \in 1..s.Scale.Count.Min |-> Replica(s, app, release, build, cmd, e, n)]

RECURSIVE ServiceLoop(_, _, _, _, _, _, _)
\* The loop of serviceContainers over the services; m and r are what
\* helpers.ReleaseManifest returned.
ServiceLoop(services, app, release, stage, m, r, cs) ==
  IF services = <<>> THEN [err |-> "", cs |-> cs]
  ELSE LET s == Head(services)
           cs1 == IF s.Port.Port > 0 THEN Append(cs, EndpointContainer(s, app, release))
                  ELSE cs
           command == IF stage = StageDevelopment THEN s.Command.Development
                      ELSE s.Command.Production
           cmd == IF TrimSpace(command) # <<>>
                  THEN <<"sh", "-c", TrimSpace(command)>> ELSE <<>>
           env == ServiceEnvironment(m, s.Name, r.Env)
           e == ResourceEnv(s.Resources, 1, m.Resources, 1, [app |-> app, env |-> env.env])
       IN CASE stage = StageTest ->
                 [err |-> "can not run background services in test", cs |-> <<>>]
            [] stage \notin {StageDevelopment, StageTest, StageProduction} ->
                 [err |-> "unknown stage", cs |-> <<>>]
            [] OTHER ->
                 IF env.err # "" THEN [err |-> env.err, cs |-> <<>>]
                 ELSE IF e.err # "" THEN [err |-> e.err, cs |-> <<>>]
                 ELSE ServiceLoop(Tail(services), app, release, stage, m, r,
                        cs1 \o Replicas(s, app, release, r.Build, cmd, e.env))

\* sysOk: whether p.SystemGet() succeeds; rel: what helpers.ReleaseManifest(p, app,
\* release) returns (err, the manifest m and the release r).
serviceContainers(services, app, release, stage, sysOk, rel) ==
  IF stage = StageTest THEN [err |-> "", cs |-> <<>>]
  ELSE IF ~sysOk THEN [err |-> "system get", cs |-> <<>>]
  ELSE IF rel.err # "" THEN [err |-> rel.err, cs |-> <<>>]
  ELSE ServiceLoop(services, app, release, stage, rel.m, rel.r, <<>>)

\* Balancers, resources and services one after the other, as converge builds cs
\* (nil on the first error).
Desired(m, r, app, sysOk, rel) ==
  LET b == balancerContainers(m.Balancers, app, r.Id, r.Stage, sysOk)
      rs == resourceContainers(m.Resources, app, r.Id)
      s == serviceContainers(m.Services, app, r.Id, r.Stage, sysOk, rel)
  IN IF b.err # "" THEN [err |-> b.err, cs |-> <<>>]
     ELSE IF rs.err # "" THEN [err |-> rs.err, cs |-> <<>>]
     ELSE IF s.err # "" THEN [err |-> s.err, cs |-> <<>>]
     ELSE [err |-> "", cs |-> (b.cs \o rs.cs) \o s.cs]

\* ------------------------------------------------------------------ releases

NoPort == [Port |-> 0, Scheme |-> ""]

Svc(name, port, min, environment, resources) ==
  [Name |-> name, Port |-> port,
   Command |-> [Development |-> <<"bin/web", " ">>, Test |-> <<>>,
                Production |-> <<"bin/web">>],
   Scale |-> [Count |-> [Min |-> min], Memory |-> 256],
   Environment |-> environment, Volumes |-> <<>>, Resources |-> resources]

WebBalancer(endpoints) == [Name |-> "web", Endpoints |-> endpoints]

Redirect80 == [Port |-> "80", Protocol |-> "http", Redirect |-> "https://web", Target |-> ""]
Target443 == [Port |-> "443", Protocol |-> "https", Redirect |-> "", Target |-> "http://web:3000"]
Neither80 == [Port |-> "80", Protocol |-> "http", Redirect |-> "", Target |-> ""]

\* The releases an app can be promoted to: the manifest of the build, the stage and
\* the environment of each.
Releases ==
  [R1 |-> [Id |-> "R1", Stage |-> StageDevelopment, Build |-> "B1",
           Env |-> << <<"MODE", "=", "dev">> >>,
           Manifest |-> [Balancers |-> <<>>,
                         Resources |-> << [Name |-> "db", Type |-> "redis"] >>,
                         Services |-> << Svc("web", NoPort, 1,
                                             << <<"MODE">>, <<"LEVEL", "=", "info">> >>,
                                             <<"db">>) >>]],
   R2 |-> [Id |-> "R2", Stage |-> StageProduction, Build |-> "B2", Env |-> <<>>,
           Manifest |-> [Balancers |-> << WebBalancer(<<Redirect80, Target443>>) >>,
                         Resources |-> <<>>,
                         Services |-> << Svc("web", [Port |-> 3000, Scheme |-> "http"], 0,
                                             <<>>, <<>>) >>]],
   R3 |-> [Id |-> "R3", Stage |-> StageDevelopment, Build |-> "B3", Env |-> <<>>,
           Manifest |-> [Balancers |-> << WebBalancer(<<Target443>>) >>,
                         Resources |-> << [Name |-> "db", Type |-> "mysql"] >>,
                         Services |-> <<>>]],
   R4 |-> [Id |-> "R4", Stage |-> StageDevelopment, Build |-> "B4", Env |-> <<>>,
           Manifest |-> [Balancers |-> << WebBalancer(<<Target443, Neither80>>) >>,
                         Resources |-> <<>>,
                         Services |-> <<>>]],
   R5 |-> [Id |-> "R5", Stage |-> StageProduction, Build |-> "B5",
           Env |-> << <<"MODE", "=", "prod">> >>,
           Manifest |-> [Balancers |-> <<>>,
                         Resources |-> << [Name |-> "db", Type |-> "postgres"] >>,
                         Services |-> << Svc("web", NoPort, 1, << <<"SECRET">> >>,
                                             <<"db">>) >>]],
   R6 |-> [Id |-> "R6", Stage |-> 7, Build |-> "B6", Env |-> <<>>,
           Manifest |-> [Balancers |-> <<>>,
                         Resources |-> << [Name |-> "db", Type |-> "redis"] >>,
                         Services |-> << Svc("web", NoPort, 1, <<>>, <<>>) >>]],
   R7 |-> [Id |-> "R7", Stage |-> StageTest, Build |-> "B7", Env |-> <<>>,
           Manifest |-> [Balancers |-> << WebBalancer(<<Target443>>) >>,
                         Resources |-> << [Name |-> "db", Type |-> "postgres"] >>,
                         Services |-> << Svc("web", [Port |-> 3000, Scheme |-> "http"], 1,
                                             <<>>, <<>>) >>]],
   R8 |-> [Id |-> "R8", Stage |-> 7, Build |-> "B8", Env |-> <<>>,
           Manifest |-> [Balancers |-> << WebBalancer(<<Target443>>) >>,
                         Resources |-> << [Name |-> "db", Type |-> "redis"] >>,
                         Services |-> <<>>]]]

ReleaseIds == DOMAIN Releases

\* The apps converge is called for, in the order AppList returns them.
AppOrder == <<"a1", "a2">>
Apps == Range(AppOrder)

\* The goroutines that call converge and convergePrune.
Callers == {"g1", "g2"}
Free == "free"

\* A container of the runtime that no converge of this behaviour started.
Other(id, ofRack, app, type, name) ==
  [Container(Flatten(<< <<ofRack>>, <<".">>, <<app>>, <<".">>, <<type>>, <<".">>, <<name>> >>),
             <<>>, [Host |-> 0, Container |-> 0], 0, <<"image">>, <<>>, <<>>, <<>>,
             ("convox.rack" :> ofRack) @@ ("convox.app" :> app) @@ ("convox.type" :> type))
   EXCEPT !.Id = id]

\* Containers that can be running when the provider starts: two left by an older
\* release of a1, one of an app that was deleted, one of another rack, and a
\* one-off process of a1.
InitialContainers ==
  {Other(1, RackName, "a1", "service", "old.1"),
   Other(2, RackName, "a1", "resource", "olddb"),
   Other(3, RackName, "a0", "service", "web.1"),
   Other(4, "other", "a1", "service", "web.1"),
   Other(5, RackName, "a1", "process", "1")}

\* What can be running when the provider starts: nothing, all of the above, or all
\* of them but the one-off process.
InitialRuntimes ==
  {{}, InitialContainers, {d \in InitialContainers : d.Labels["convox.type"] # "process"}}

\* The releases an app can be at when the provider starts ("": none yet).
InitialReleases == {"", "R1"}

\* ------------------------------------------------------------------ state

VARIABLES
  store,          \* the apps that exist (what AppList returns)
  current,        \* the release each app is promoted to, "" when none
  docker,         \* the running containers of the runtime
  starts,         \* containers started so far (the next identifier)
  envs,           \* steps of the other actors so far
  calls,          \* invocations started so far
  convergeLock,   \* the holder of convergeLock, or Free
  pc,             \* where each caller is
  fn,             \* the function each caller is in
  app,            \* converge: its argument
  rel,            \* converge: r.Id of the release AppManifest returned
  cs,             \* converge: the desired containers
  i,              \* the position of the loop a caller is in
  running,        \* converge: the rack+app query result
  ps,             \* converge: the rack+app+process query result
  apps,           \* convergePrune: the listed apps
  all,            \* convergePrune: the rack query result
  appc,           \* convergePrune: the identifiers of the listed apps' containers
  err,            \* the error the invocation returns, "" for none
  created,        \* history: specs containerConverge was called with, in order
  registered,     \* history: specs containerRegister was called with, in order
  stopCalls,      \* history: identifiers docker stop was run with, in order
  killed,         \* history: running containers those stops ended
  failedStops,    \* history: running containers those stops failed to end
  last,           \* history: per app, its last successful converge
  since,          \* history: the steps of the other actors when the caller took the lock
  call,           \* a function applied on its own: its name and arguments
  ret             \* what that function returned

vars == <<store, current, docker, starts, envs, calls, convergeLock, pc, fn, app, rel,
          cs, i, running, ps, apps, all, appc, err, created, registered, stopCalls,
          killed, failedStops, last, since, rack, call, ret>>

runtimeVars == <<docker, starts>>
storeVars == <<store, current>>
localVars == <<fn, app, rel, cs, i, running, ps, apps, all, appc, err>>
historyVars == <<created, registered, stopCalls, killed, failedStops, since>>
pureVars == <<rack, call, ret>>
engineVars == <<storeVars, runtimeVars, envs, calls, convergeLock, pc, localVars, historyVars,
                last>>

\* No function is applied on its own; nothing returned yet.
NoCall == [fn |-> ""]
NoRet == [fn |-> ""]

NoLast == [rel |-> "", names |-> {}, failed |-> {}]

NumInitial == Cardinality(InitialContainers)

\* The identifiers the runtime hands out in one behaviour.
ContainerIds == 1..(NumInitial + MaxStarts)

\* No invocation has been started and the other actors have not moved.
IdleInit ==
  /\ starts = 0
  /\ envs = 0
  /\ calls = 0
  /\ convergeLock = Free
  /\ pc = [c \in Callers |-> "idle"]
  /\ fn = [c \in Callers |-> ""]
  /\ app = [c \in Callers |-> ""]
  /\ rel = [c \in Callers |-> ""]
  /\ cs = [c \in Callers |-> <<>>]
  /\ i = [c \in Callers |-> 0]
  /\ running = [c \in Callers |-> <<>>]
  /\ ps = [c \in Callers |-> <<>>]
  /\ apps = [c \in Callers |-> <<>>]
  /\ all = [c \in Callers |-> <<>>]
  /\ appc = [c \in Callers |-> {}]
  /\ err = [c \in Callers |-> ""]
  /\ created = [c \in Callers |-> <<>>]
  /\ registered = [c \in Callers |-> <<>>]
  /\ stopCalls = [c \in Callers |-> <<>>]
  /\ killed = [c \in Callers |-> {}]
  /\ failedStops = [c \in Callers |-> {}]
  /\ last = [a \in Apps |-> NoLast]
  /\ since = [c \in Callers |-> 0]

Init ==
  /\ rack = "convox"
  /\ call = NoCall
  /\ ret = NoRet
  /\ store \in SUBSET Apps
  /\ current \in [Apps -> InitialReleases]
  /\ \A a \in Apps \ store : current[a] = ""
  /\ docker \in InitialRuntimes
  /\ IdleInit

\* ------------------------------------------------------------------ collaborators

\* helpers.ReleaseManifest(p, app, release).
ReleaseManifest(a, id) ==
  IF a \notin store THEN [err |-> "no such app", m |-> <<>>, r |-> <<>>]
  ELSE IF id \notin ReleaseIds THEN [err |-> "no such release", m |-> <<>>, r |-> <<>>]
  ELSE [err |-> "", m |-> Releases[id].Manifest, r |-> Releases[id]]

\* helpers.AppManifest(p, app): the manifest and the release the app is promoted to.
AppManifest(a) ==
  IF a \notin store THEN [err |-> "no such app", m |-> <<>>, r |-> <<>>]
  ELSE IF current[a] = "" THEN [err |-> "no release for app", m |-> <<>>, r |-> <<>>]
  ELSE ReleaseManifest(a, current[a])

\* p.AppList(): the names of the apps, in order.
AppList == SelectSeq(AppOrder, LAMBDA a : a \in store)

HasLabels(c, labels) ==
  \A k \in DOMAIN labels : k \in DOMAIN c.Labels /\ c.Labels[k] = labels[k]

\* The identifiers in the order of docker ps: the newest container first.
NewestFirst(ids) ==
  [k \in 1..Cardinality(ids) |->
     CHOOSE x \in ids : Cardinality({y \in ids : y > x}) = k - 1]

\* containersByLabels(labels): the identifiers of the running containers that carry
\* all the labels, as docker ps lists them.
containersByLabels(labels) == NewestFirst({c.Id : c \in {d \in docker : HasLabels(d, labels)}})

\* The running container of that name, as a set (docker keeps names unique).
ByName(name) == {d \in docker : d.Name = name}

\* containerConverge(c, app, release): the running container named c.Name is kept
\* when it was started from the same spec and replaced otherwise; with none, one is
\* started. The identifier of the container, the runtime afterwards, and whether a
\* container was started.
containerConverge(c) ==
  LET same == {d \in ByName(c.Name) : [d EXCEPT !.Id = 0] = c}
      id == NumInitial + starts + 1
  IN IF same # {}
     THEN [id |-> (CHOOSE d \in same : TRUE).Id, docker |-> docker, started |-> 0]
     ELSE [id |-> id,
           docker |-> (docker \ ByName(c.Name)) \cup {[c EXCEPT !.Id = id]},
           started |-> 1]

\* ------------------------------------------------------------------ callers

\* The positions inside the body of converge or convergePrune, after Lock returned.
Body == {"manifest", "create", "running", "ps", "stop", "applist", "all", "appc", "kill",
         "return"}

CallConverge(c, a) ==
  /\ pc[c] = "idle"
  /\ calls < MaxCalls
  /\ calls' = calls + 1
  /\ pc' = [pc EXCEPT ![c] = "lock"]
  /\ fn' = [fn EXCEPT ![c] = "converge"]
  /\ app' = [app EXCEPT ![c] = a]
  /\ UNCHANGED <<storeVars, runtimeVars, envs, convergeLock, rel, cs, i, running, ps, apps,
                 all, appc, err, historyVars, last, pureVars>>

CallPrune(c) ==
  /\ pc[c] = "idle"
  /\ calls < MaxCalls
  /\ calls' = calls + 1
  /\ pc' = [pc EXCEPT ![c] = "lock"]
  /\ fn' = [fn EXCEPT ![c] = "convergePrune"]
  /\ UNCHANGED <<storeVars, runtimeVars, envs, convergeLock, app, rel, cs, i, running, ps,
                 apps, all, appc, err, historyVars, last, pureVars>>

\* A lock per application instead of the one mutex: callers for different apps pass.
CanLockPerApp(c) ==
  \/ convergeLock = Free
  \/ convergeLock # Free /\ app[convergeLock] # app[c]

\* convergeLock.Lock() returns to c only when no one holds the mutex.
CanLock(c) == convergeLock = Free

Lock(c) ==
  /\ pc[c] = "lock"
  /\ CanLock(c)
  /\ convergeLock' = c
  /\ pc' = [pc EXCEPT ![c] = IF fn[c] = "converge" THEN "manifest" ELSE "applist"]
  /\ since' = [since EXCEPT ![c] = envs]
  /\ UNCHANGED <<storeVars, runtimeVars, envs, calls, localVars, created, registered,
                 stopCalls, killed, failedStops, last, pureVars>>

\* The errors of the synthesis functions dropped: converge goes on with what it has.
AfterSynthesisUnchecked(d) == IF d.cs = <<>> THEN "running" ELSE "create"

\* Where converge goes after the synthesis returned d.
AfterSynthesis(d) ==
  IF d.err # "" THEN "return" ELSE IF d.cs = <<>> THEN "running" ELSE "create"

\* converge, lines 23-49: helpers.AppManifest and the three synthesis functions.
ConvergeManifest(c) ==
  /\ pc[c] = "manifest"
  /\ \E sysOk \in BOOLEAN :
       LET am == AppManifest(app[c])
           d == IF am.err # "" THEN [err |-> am.err, cs |-> <<>>]
                ELSE Desired(am.m, am.r, app[c], sysOk, ReleaseManifest(app[c], am.r.Id))
       IN /\ err' = [err EXCEPT ![c] = d.err]
          /\ cs' = [cs EXCEPT ![c] = d.cs]
          /\ rel' = [rel EXCEPT ![c] = IF am.err = "" THEN am.r.Id ELSE ""]
          /\ pc' = [pc EXCEPT ![c] = AfterSynthesis(d)]
          /\ i' = [i EXCEPT ![c] = 1]
  /\ UNCHANGED <<storeVars, runtimeVars, envs, calls, convergeLock, fn, app, running, ps,
                 apps, all, appc, historyVars, last, pureVars>>

\* Where converge goes after containerConverge (and containerRegister) succeeded for
\* the spec at position k of n.
AfterCreate(k, n) == IF k < n THEN "create" ELSE "running"

\* The loop over cs left with break instead of return: the queries and stops follow.
AfterCreateFailureBreak(k, n) == "running"

\* Where converge goes when containerConverge failed for the spec at position k of n.
AfterCreateFailure(k, n) == "return"

\* The identifier assigned to the loop's copy c instead of cs[i].
RecordedInCopy(spec, id) == spec

\* cs[i].Id = id: the spec with the identifier containerConverge returned.
Recorded(spec, id) == [spec EXCEPT !.Id = id]

\* Every container registered, the replicas without a hostname too.
RegistersAll(spec) == TRUE

\* converge, line 61: the containers that are registered are those with a hostname.
Registers(spec) == spec.Hostname # <<>>

\* converge, lines 53-66: one iteration of the loop over cs.
ConvergeCreate(c) ==
  /\ pc[c] = "create"
  /\ LET k == i[c]
         spec == cs[c][k]
         res == containerConverge(spec)
         withId == Recorded(spec, res.id)
     IN \/ \* containerConverge fails
           /\ created' = [created EXCEPT ![c] = Append(@, [Name |-> spec.Name, Id |-> 0])]
           /\ err' = [err EXCEPT ![c] = "containerConverge"]
           /\ pc' = [pc EXCEPT ![c] = AfterCreateFailure(k, Len(cs[c]))]
           /\ UNCHANGED <<docker, starts, cs, i, registered>>
        \/ \* containerConverge succeeds
           /\ starts + res.started <= MaxStarts
           /\ docker' = res.docker
           /\ starts' = starts + res.started
           /\ created' = [created EXCEPT ![c] = Append(@, [Name |-> spec.Name, Id |-> res.id])]
           /\ cs' = [cs EXCEPT ![c][k] = withId]
           /\ IF Registers(spec)
              THEN \/ \* containerRegister succeeds
                      /\ registered' = [registered EXCEPT ![c] = Append(@, withId)]
                      /\ pc' = [pc EXCEPT ![c] = AfterCreate(k, Len(cs[c]))]
                      /\ i' = [i EXCEPT ![c] = k + 1]
                      /\ UNCHANGED err
                   \/ \* containerRegister fails
                      /\ err' = [err EXCEPT ![c] = "containerRegister"]
                      /\ pc' = [pc EXCEPT ![c] = "return"]
                      /\ UNCHANGED <<registered, i>>
              ELSE /\ pc' = [pc EXCEPT ![c] = AfterCreate(k, Len(cs[c]))]
                   /\ i' = [i EXCEPT ![c] = k + 1]
                   /\ UNCHANGED <<registered, err>>
  /\ UNCHANGED <<storeVars, envs, calls, convergeLock, fn, app, rel, running, ps, apps, all,
                 appc, stopCalls, killed, failedStops, last, since, pureVars>>

\* The labels of the two queries of converge.
AppLabels(a) == ("convox.rack" :> RackName) @@ ("convox.app" :> a)
ProcessLabels(a) == AppLabels(a) @@ ("convox.type" :> "process")

\* The query for running narrowed to the process containers, as the query for ps is.
RunningLabelsOfProcesses(c) == ProcessLabels(app[c])

\* The labels of the query for running, lines 68-71.
RunningLabels(c) == AppLabels(app[c])

\* converge, lines 68-74.
ConvergeRunning(c) ==
  /\ pc[c] = "running"
  /\ \/ /\ err' = [err EXCEPT ![c] = "containersByLabels"]
        /\ pc' = [pc EXCEPT ![c] = "return"]
        /\ UNCHANGED running
     \/ /\ running' = [running EXCEPT ![c] = containersByLabels(RunningLabels(c))]
        /\ pc' = [pc EXCEPT ![c] = "ps"]
        /\ UNCHANGED err
  /\ UNCHANGED <<storeVars, runtimeVars, envs, calls, convergeLock, fn, app, rel, cs, i, ps,
                 apps, all, appc, historyVars, last, pureVars>>

\* converge, lines 76-83.
ConvergePs(c) ==
  /\ pc[c] = "ps"
  /\ \/ /\ err' = [err EXCEPT ![c] = "containersByLabels"]
        /\ pc' = [pc EXCEPT ![c] = "return"]
        /\ UNCHANGED <<ps, i>>
     \/ /\ ps' = [ps EXCEPT ![c] = containersByLabels(ProcessLabels(app[c]))]
        /\ pc' = [pc EXCEPT ![c] = IF running[c] = <<>> THEN "return" ELSE "stop"]
        /\ i' = [i EXCEPT ![c] = 1]
        /\ UNCHANGED err
  /\ UNCHANGED <<storeVars, runtimeVars, envs, calls, convergeLock, fn, app, rel, cs,
                 running, apps, all, appc, historyVars, last, pureVars>>

\* exec.Command("docker", "stop", rc).Run() by caller c, its result ignored: a running
\* container is ended or, when the stop fails, keeps running.
DockerStop(c, rc) ==
  /\ stopCalls' = [stopCalls EXCEPT ![c] = Append(@, rc)]
  /\ IF \E d \in docker : d.Id = rc
     THEN LET d == CHOOSE x \in docker : x.Id = rc
          IN \/ /\ docker' = docker \ {d}
                /\ killed' = [killed EXCEPT ![c] = @ \cup {d}]
                /\ UNCHANGED failedStops
             \/ /\ failedStops' = [failedStops EXCEPT ![c] = @ \cup {rc}]
                /\ UNCHANGED <<docker, killed>>
     ELSE UNCHANGED <<docker, killed, failedStops>>

\* The stop loop left at the first stop that fails.
AfterStopChecked(c, n, loop) ==
  IF failedStops'[c] # failedStops[c] THEN "return"
  ELSE IF i[c] < n THEN loop ELSE "return"

\* Where a stop loop of n containers goes after the iteration at i[c]: the result of
\* the stop is not looked at.
AfterStop(c, n, loop) == IF i[c] < n THEN loop ELSE "return"

\* The loop over ps alone: the loop over cs left out.
FoundWithoutDesired(c, rc) == \E k \in DOMAIN ps[c] : ps[c][k] = rc

\* The loop over cs alone: the loop over ps left out.
FoundWithoutProcesses(c, rc) == \E k \in DOMAIN cs[c] : cs[c][k].Id = rc

\* converge, lines 86-101: whether the running container rc is kept.
Found(c, rc) ==
  \/ \E k \in DOMAIN cs[c] : cs[c][k].Id = rc
  \/ \E k \in DOMAIN ps[c] : ps[c][k] = rc

\* converge, lines 85-108: one iteration of the loop over running.
ConvergeStop(c) ==
  /\ pc[c] = "stop"
  /\ LET rc == running[c][i[c]]
     IN IF ~Found(c, rc) THEN DockerStop(c, rc)
        ELSE UNCHANGED <<docker, stopCalls, killed, failedStops>>
  /\ i' = [i EXCEPT ![c] = @ + 1]
  /\ pc' = [pc EXCEPT ![c] = AfterStop(c, Len(running[c]), "stop")]
  /\ UNCHANGED <<storeVars, starts, envs, calls, convergeLock, fn, app, rel, cs, running, ps,
                 apps, all, appc, err, created, registered, last, since, pureVars>>

\* convergePrune, lines 119-122.
PruneAppList(c) ==
  /\ pc[c] = "applist"
  /\ \/ /\ err' = [err EXCEPT ![c] = "AppList"]
        /\ pc' = [pc EXCEPT ![c] = "return"]
        /\ UNCHANGED apps
     \/ /\ apps' = [apps EXCEPT ![c] = AppList]
        /\ pc' = [pc EXCEPT ![c] = "all"]
        /\ UNCHANGED err
  /\ UNCHANGED <<storeVars, runtimeVars, envs, calls, convergeLock, fn, app, rel, cs, i,
                 running, ps, all, appc, historyVars, last, pureVars>>

\* Where convergePrune goes when the loop over apps is over.
AfterApps(c, rackAll) == IF rackAll = <<>> THEN "return" ELSE "kill"

\* convergePrune, lines 124-129.
PruneAll(c) ==
  /\ pc[c] = "all"
  /\ \/ /\ err' = [err EXCEPT ![c] = "containersByLabels"]
        /\ pc' = [pc EXCEPT ![c] = "return"]
        /\ UNCHANGED <<all, i>>
     \/ LET q == containersByLabels("convox.rack" :> RackName)
        IN /\ all' = [all EXCEPT ![c] = q]
           /\ pc' = [pc EXCEPT ![c] = IF apps[c] = <<>> THEN AfterApps(c, q) ELSE "appc"]
           /\ i' = [i EXCEPT ![c] = 1]
           /\ UNCHANGED err
  /\ UNCHANGED <<storeVars, runtimeVars, envs, calls, convergeLock, fn, app, rel, cs,
                 running, ps, apps, appc, historyVars, last, pureVars>>

\* convergePrune, lines 133-145: one iteration of the loop over apps.
PruneApp(c) ==
  /\ pc[c] = "appc"
  /\ \/ /\ err' = [err EXCEPT ![c] = "containersByLabels"]
        /\ pc' = [pc EXCEPT ![c] = "return"]
        /\ UNCHANGED <<appc, i>>
     \/ LET ac == containersByLabels(AppLabels(apps[c][i[c]]))
        IN /\ appc' = [appc EXCEPT ![c] = @ \cup Range(ac)]
           /\ pc' = [pc EXCEPT ![c] = IF i[c] < Len(apps[c]) THEN "appc"
                                      ELSE AfterApps(c, all[c])]
           /\ i' = [i EXCEPT ![c] = IF i[c] < Len(apps[c]) THEN @ + 1 ELSE 1]
           /\ UNCHANGED err
  /\ UNCHANGED <<storeVars, runtimeVars, envs, calls, convergeLock, fn, app, rel, cs,
                 running, ps, apps, all, historyVars, last, pureVars>>

\* appc looked up by app name instead of by container identifier.
ValidByAppName(c, x) == \E k \in DOMAIN apps[c] : apps[c][k] = Itoa(x)

\* convergePrune, line 148: whether the container x of the rack is kept.
Valid(c, x) == x \in appc[c]

\* convergePrune, lines 147-152: one iteration of the loop over all.
PruneStop(c) ==
  /\ pc[c] = "kill"
  /\ LET x == all[c][i[c]]
     IN IF ~Valid(c, x) THEN DockerStop(c, x)
        ELSE UNCHANGED <<docker, stopCalls, killed, failedStops>>
  /\ i' = [i EXCEPT ![c] = @ + 1]
  /\ pc' = [pc EXCEPT ![c] = AfterStop(c, Len(all[c]), "kill")]
  /\ UNCHANGED <<storeVars, starts, envs, calls, convergeLock, fn, app, rel, cs, running, ps,
                 apps, all, appc, err, created, registered, last, since, pureVars>>

\* Unlock on the successful return only, the error returns leaving the mutex held.
UnlockOnSuccess(c) == IF err[c] = "" THEN Free ELSE convergeLock

\* What the deferred convergeLock.Unlock() leaves in the mutex when c returns.
Unlock(c) == Free

\* The names of the desired containers cs.
Names(d) == {d[k].Name : k \in DOMAIN d}

\* The return of converge or convergePrune: the deferred Unlock runs, whatever the
\* result; the caller's locals are gone.
Return(c) ==
  /\ pc[c] = "return"
  /\ convergeLock' = Unlock(c)
  /\ last' = IF fn[c] = "converge" /\ err[c] = ""
             THEN [last EXCEPT ![app[c]] = [rel |-> rel[c], names |-> Names(cs[c]),
                                            failed |-> failedStops[c]]]
             ELSE last
  /\ pc' = [pc EXCEPT ![c] = "idle"]
  /\ fn' = [fn EXCEPT ![c] = ""]
  /\ app' = [app EXCEPT ![c] = ""]
  /\ rel' = [rel EXCEPT ![c] = ""]
  /\ cs' = [cs EXCEPT ![c] = <<>>]
  /\ i' = [i EXCEPT ![c] = 0]
  /\ running' = [running EXCEPT ![c] = <<>>]
  /\ ps' = [ps EXCEPT ![c] = <<>>]
  /\ apps' = [apps EXCEPT ![c] = <<>>]
  /\ all' = [all EXCEPT ![c] = <<>>]
  /\ appc' = [appc EXCEPT ![c] = {}]
  /\ err' = [err EXCEPT ![c] = ""]
  /\ created' = [created EXCEPT ![c] = <<>>]
  /\ registered' = [registered EXCEPT ![c] = <<>>]
  /\ stopCalls' = [stopCalls EXCEPT ![c] = <<>>]
  /\ killed' = [killed EXCEPT ![c] = {}]
  /\ failedStops' = [failedStops EXCEPT ![c] = {}]
  /\ since' = [since EXCEPT ![c] = 0]
  /\ UNCHANGED <<storeVars, runtimeVars, envs, calls, pureVars>>

\* ------------------------------------------------------------------ other actors

\* An app is created: it has no release yet.
AppCreate(a) ==
  /\ envs < MaxEnv
  /\ a \notin store
  /\ store' = store \cup {a}
  /\ envs' = envs + 1
  /\ UNCHANGED <<current, runtimeVars, calls, convergeLock, pc, localVars, historyVars, last,
                 pureVars>>

\* An app is deleted: its containers stay behind.
AppDelete(a) ==
  /\ envs < MaxEnv
  /\ a \in store
  /\ store' = store \ {a}
  /\ current' = [current EXCEPT ![a] = ""]
  /\ last' = [last EXCEPT ![a] = NoLast]
  /\ envs' = envs + 1
  /\ UNCHANGED <<runtimeVars, calls, convergeLock, pc, localVars, historyVars, pureVars>>

\* An app is promoted to another release.
ReleasePromote(a, r) ==
  /\ envs < MaxEnv
  /\ a \in store
  /\ r # current[a]
  /\ current' = [current EXCEPT ![a] = r]
  /\ last' = [last EXCEPT ![a] = NoLast]
  /\ envs' = envs + 1
  /\ UNCHANGED <<store, runtimeVars, calls, convergeLock, pc, localVars, historyVars, pureVars>>

\* A one-off process of an app is started; it takes no lock.
ProcessStart(a) ==
  /\ envs < MaxEnv
  /\ starts < MaxStarts
  /\ a \in store
  /\ LET id == NumInitial + starts + 1
     IN docker' = docker \cup {Other(id, RackName, a, "process", Itoa(id))}
  /\ starts' = starts + 1
  /\ envs' = envs + 1
  /\ UNCHANGED <<storeVars, calls, convergeLock, pc, localVars, historyVars, last, pureVars>>

\* The one-off process with identifier x ends by itself.
ProcessExit(x) ==
  /\ envs < MaxEnv
  /\ \E d \in docker :
       /\ d.Id = x
       /\ d.Labels["convox.type"] = "process"
       /\ docker' = docker \ {d}
  /\ envs' = envs + 1
  /\ UNCHANGED <<storeVars, starts, calls, convergeLock, pc, localVars, historyVars, last,
                 pureVars>>

\* ------------------------------------------------------------------ specification

Next ==
  \/ \E c \in Callers, a \in Apps : CallConverge(c, a)
  \/ \E c \in Callers : CallPrune(c)
  \/ \E c \in Callers : Lock(c)
  \/ \E c \in Callers : ConvergeManifest(c)
  \/ \E c \in Callers : ConvergeCreate(c)
  \/ \E c \in Callers : ConvergeRunning(c)
  \/ \E c \in Callers : ConvergePs(c)
  \/ \E c \in Callers : ConvergeStop(c)
  \/ \E c \in Callers : PruneAppList(c)
  \/ \E c \in Callers : PruneAll(c)
  \/ \E c \in Callers : PruneApp(c)
  \/ \E c \in Callers : PruneStop(c)
  \/ \E c \in Callers : Return(c)
  \/ \E a \in Apps : AppCreate(a)
  \/ \E a \in Apps : AppDelete(a)
  \/ \E a \in Apps, r \in ReleaseIds : ReleasePromote(a, r)
  \/ \E a \in Apps : ProcessStart(a)
  \/ \E x \in ContainerIds : ProcessExit(x)

Spec == Init /\ [][Next]_vars

\* The steps of a caller: a call that was made runs on (the runtime calls return, a
\* goroutine blocked in Lock is woken when the mutex is free).
Step(c) ==
  \/ Lock(c)
  \/ ConvergeManifest(c) \/ ConvergeCreate(c) \/ ConvergeRunning(c) \/ ConvergePs(c)
  \/ ConvergeStop(c)
  \/ PruneAppList(c) \/ PruneAll(c) \/ PruneApp(c) \/ PruneStop(c)
  \/ Return(c)

\* The provider starts with every initial container running, a1 at release R1 and
\* a2 either without a release or not created.
FairInit ==
  /\ Init
  /\ docker = InitialContainers
  /\ "a1" \in store
  /\ current = [a \in Apps |-> IF a = "a1" THEN "R1" ELSE ""]

FairSpec == FairInit /\ [][Next]_vars /\ \A c \in Callers : WF_vars(Step(c))

\* ------------------------------------------------------------------ functions alone

\* The synthesis of converge (lines 28-49), Service.Env and Service.BuildHash applied
\* to arguments drawn from the sets below, outside any invocation of converge.

\* The largest scale.count.minimum of a service.
MaxScale == 3
\* The declared entries of a service, and the entries of the ambient environment.
MaxDecl == 2
\* The build arguments of a service.
MaxArgs == 2

\* The sequences over S of at most n elements.
SeqsUpTo(S, n) == UNION {[1..k -> S] : k \in 0..n}

Racks == {"convox", "dev"}
\* The stages of manifest, and a value that is none of them.
Stages == {StageDevelopment, StageTest, StageProduction, 7}

BalancerChoices ==
  {<<>>, << WebBalancer(<<Target443>>) >>, << WebBalancer(<<Redirect80, Target443>>) >>,
   << WebBalancer(<<Neither80>>) >>}

ResourceChoices ==
  {<<>>, << [Name |-> "db", Type |-> "redis"] >>,
   << [Name |-> "db", Type |-> "postgres"], [Name |-> "cache", Type |-> "redis"] >>,
   << [Name |-> "db", Type |-> "mysql"] >>}

\* The environment a service declares: nothing, a required key, a default for the key
\* the injection of db writes.
DeclaredChoices == {<<>>, << <<"MODE">> >>, << <<"DB", "_URL", "=", "declared">> >>}

\* The service web, with and without a port, at every scale.
WebChoices ==
  {Svc("web", p, n, e, rs) :
     p \in {NoPort, [Port |-> 3000, Scheme |-> "http"]}, n \in 0..MaxScale,
     e \in DeclaredChoices, rs \in {<<>>, <<"db">>, <<"db", "cache">>}}

WorkerChoices ==
  {Svc("worker", NoPort, n, <<>>, rs) : n \in {0, 2}, rs \in {<<>>, <<"cache">>}}

ServiceChoices ==
  {<<>>} \cup {<<w>> : w \in WebChoices}
         \cup {<<w, k>> : w \in {x \in WebChoices : x.Port.Port > 0}, k \in WorkerChoices}

\* What can go wrong outside the synthesis: p.SystemGet, helpers.ReleaseManifest.
Faults == {"", "system get", "no such release"}

SynthesisCalls ==
  {[fn |-> "synthesize", app |-> "a1", stage |-> st, balancers |-> b, resources |-> rs,
    services |-> ss, env |-> amb, fault |-> f] :
     st \in Stages, b \in BalancerChoices, rs \in ResourceChoices, ss \in ServiceChoices,
     amb \in {<<>>, << <<"MODE", "=", "dev">> >>}, f \in Faults}

\* Declared entries: required and with a default; ambient entries, one of them no K=V.
DeclaredEntries == {<<"K">>, <<"K", "=", "d">>, <<"L">>, <<"L", "=">>}
AmbientEntries == {<<"K", "=", "v">>, <<"L", "=", "w">>, <<"M", "=", "x">>, <<"K">>}

EnvCalls ==
  {[fn |-> "Env", s |-> [Environment |-> decl], env |-> amb] :
     decl \in SeqsUpTo(DeclaredEntries, MaxDecl), amb \in SeqsUpTo(AmbientEntries, MaxDecl)}

\* Build paths, build arguments and images: texts with blanks and quotes among them.
Paths == {<<".">>, <<"a", " ", "b">>}
Arguments == {<<"a">>, <<"b">>, <<"a", " ", "b">>, <<"\"">>}
Images == {<<>>, <<"img">>}

HashServices ==
  {[Build |-> [Path |-> pa, Args |-> ar], Image |-> im] :
     pa \in Paths, ar \in SeqsUpTo(Arguments, MaxArgs), im \in Images}

HashCalls == {[fn |-> "BuildHash", s |-> s] : s \in HashServices}

PureInit ==
  /\ rack \in Racks
  /\ call \in (SynthesisCalls \cup EnvCalls) \cup HashCalls
  /\ ret = NoRet
  /\ store = {}
  /\ current = [a \in Apps |-> ""]
  /\ docker = {}
  /\ IdleInit

\* converge, lines 28-49, for the manifest and release of the call.
Synthesize ==
  /\ call.fn = "synthesize" /\ ret = NoRet
  /\ LET m == [Balancers |-> call.balancers, Resources |-> call.resources,
               Services |-> call.services]
         r == [Id |-> "R1", Stage |-> call.stage, Build |-> "B1", Env |-> call.env,
               Manifest |-> m]
         sysOk == call.fault # "system get"
         rm == IF call.fault = "no such release"
               THEN [err |-> "no such release", m |-> <<>>, r |-> <<>>]
               ELSE [err |-> "", m |-> m, r |-> r]
     IN ret' = [fn |-> "synthesize",
                b |-> balancerContainers(m.Balancers, call.app, r.Id, r.Stage, sysOk),
                rs |-> resourceContainers(m.Resources, call.app, r.Id),
                s |-> serviceContainers(m.Services, call.app, r.Id, r.Stage, sysOk, rm),
                d |-> Desired(m, r, call.app, sysOk, rm)]
  /\ UNCHANGED <<engineVars, rack, call>>

\* s.Env(env).
ResolveEnv ==
  /\ call.fn = "Env" /\ ret = NoRet
  /\ ret' = [fn |-> "Env", e |-> ServiceEnv(call.s, call.env)]
  /\ UNCHANGED <<engineVars, rack, call>>

\* s.BuildHash(), up to the text it hashes.
HashBuild ==
  /\ call.fn = "BuildHash" /\ ret = NoRet
  /\ ret' = [fn |-> "BuildHash", text |-> BuildHashInput(call.s)]
  /\ UNCHANGED <<engineVars, rack, call>>

PureNext == Synthesize \/ ResolveEnv \/ HashBuild

PureSpec == PureInit /\ [][PureNext]_vars

\* ------------------------------------------------------------------ properties

\* A converge that has come to its return without error.
ConvergeDone(c) == pc[c] = "return" /\ fn[c] = "converge" /\ err[c] = ""

\* A convergePrune that has come to its return without error.
PruneDone(c) == pc[c] = "return" /\ fn[c] = "convergePrune" /\ err[c] = ""

\* The identifiers recorded in the desired containers of c.
Ids(c) == {cs[c][k].Id : k \in DOMAIN cs[c]}

\* No other actor has taken a step since c took the lock.
Quiet(c) == since[c] = envs

\* C1: two invocations of converge and/or convergePrune are never inside their
\* bodies at the same time, and whoever is inside a body holds convergeLock, so
\* the runtime calls of one invocation never interleave with another's.
C1_MutualExclusion ==
  /\ \A c \in Callers, d \in Callers : pc[c] \in Body /\ pc[d] \in Body => c = d
  /\ \A c \in Callers : pc[c] \in Body <=> convergeLock = c

\* C1 witness: one caller is in the stop loop of a converge while the other waits
\* for the lock in a convergePrune.
C1_Witness ==
  \E c \in Callers, d \in Callers :
    /\ pc[c] = "stop" /\ fn[c] = "converge" /\ stopCalls[c] # <<>>
    /\ pc[d] = "lock" /\ fn[d] = "convergePrune"

\* C2: converge(A) never runs docker stop on a container of its rack+app+process
\* query result, and never ends a running container labeled rack, app=A,
\* type=process.
C2_ProcessesKept ==
  \A c \in Callers :
    fn[c] = "converge" =>
      /\ \A k \in DOMAIN stopCalls[c] : stopCalls[c][k] \notin Range(ps[c])
      /\ \A d \in killed[c] : ~HasLabels(d, ProcessLabels(app[c]))

\* C2 witness: a converge has stopped a container while a one-off process of the
\* app was in both query results and is still running.
C2_Witness ==
  \E c \in Callers :
    /\ ConvergeDone(c)
    /\ killed[c] # {}
    /\ \E d \in docker :
         /\ HasLabels(d, ProcessLabels(app[c]))
         /\ d.Id \in Range(ps[c]) /\ d.Id \in Range(running[c])

\* C3: when converge returns without error, docker stop has been run exactly on
\* the containers of running that are neither recorded in cs nor in ps, each once.
C3_StopSet ==
  \A c \in Callers :
    ConvergeDone(c) =>
      /\ Range(stopCalls[c]) = (Range(running[c]) \ Ids(c)) \ Range(ps[c])
      /\ Cardinality(Range(stopCalls[c])) = Len(stopCalls[c])

\* C3 witness: a converge returns having stopped two containers, with a desired
\* container and a one-off process among the running ones.
C3_Witness ==
  \E c \in Callers :
    /\ ConvergeDone(c)
    /\ Len(stopCalls[c]) >= 2
    /\ Range(running[c]) \cap Ids(c) # {}
    /\ Range(running[c]) \cap Range(ps[c]) # {}

\* A converge of c returns without error after an earlier successful converge of
\* the same app, with the app at the same release ever since.
SecondConverge(c) ==
  /\ ConvergeDone(c)
  /\ last[app[c]].rel # ""
  /\ last[app[c]].rel = rel[c]

\* C4 as stated: the second of two successive successful converges computes the
\* same desired names and stops no container.
C4_SecondStopsNothing ==
  \A c \in Callers :
    SecondConverge(c) =>
      /\ Names(cs[c]) = last[app[c]].names
      /\ killed[c] = {}

\* C4 amended: the second of two successive successful converges computes the same
\* desired names and ends only containers whose stop failed in the first.
C4_SecondStopsOnlyFailed ==
  \A c \in Callers :
    SecondConverge(c) =>
      /\ Names(cs[c]) = last[app[c]].names
      /\ {d.Id : d \in killed[c]} \subseteq last[app[c]].failed

\* C4 witness: a second converge finds the app's containers running and stops none,
\* the first having left no failed stop.
C4_Witness ==
  \E c \in Callers :
    /\ SecondConverge(c)
    /\ last[app[c]].failed = {}
    /\ Len(running[c]) >= 2
    /\ stopCalls[c] = <<>>

\* The containers of the rack whose app is not listed, running or just ended by c.
Unlisted(c) ==
  {d \in docker \cup killed[c] :
     HasLabels(d, "convox.rack" :> RackName) /\ d.Labels["convox.app"] \notin store}

\* C5: a successful convergePrune during which no other actor acts has run docker
\* stop exactly on the containers of the rack whose app is not listed.
C5_PruneSet ==
  \A c \in Callers :
    PruneDone(c) /\ Quiet(c) =>
      /\ Range(stopCalls[c]) = {d.Id : d \in Unlisted(c)}
      /\ Cardinality(Range(stopCalls[c])) = Len(stopCalls[c])

\* C5 witness: a convergePrune returns with two containers stopped while a listed
\* app has a one-off process and other containers running.
C5_Witness ==
  \E c \in Callers :
    /\ PruneDone(c) /\ Quiet(c)
    /\ Len(stopCalls[c]) >= 2
    /\ \E d \in docker, e \in docker :
         /\ d.Labels["convox.app"] \in store /\ e.Labels["convox.app"] \in store
         /\ HasLabels(d, "convox.rack" :> RackName) /\ HasLabels(e, "convox.rack" :> RackName)
         /\ d.Labels["convox.type"] = "process" /\ e.Labels["convox.type"] # "process"

\* C6: the lock is free whenever no caller is inside a body, and a caller waiting
\* for the lock is eventually let in, whatever way the invocations before it ended.
C6_LockReleased ==
  /\ [](\A c \in Callers : convergeLock = c => pc[c] \in Body)
  /\ \A c \in Callers : (pc[c] = "lock") ~> (convergeLock = c)

\* C6 witness: a caller waits for the lock while the holder is about to return the
\* error of a failed containerRegister.
C6_Witness ==
  \E c \in Callers, d \in Callers :
    /\ pc[c] = "lock"
    /\ pc[d] = "return" /\ err[d] = "containerRegister" /\ convergeLock = d

\* C7: when containerConverge fails for the spec at position i, converge returns
\* that error with no containerConverge call after the failed one, no docker stop,
\* and a container still running under the name of every earlier spec.
C7_CreateFailure ==
  \A c \in Callers :
    pc[c] = "return" /\ err[c] = "containerConverge" =>
      /\ Len(created[c]) = i[c]
      /\ created[c][i[c]].Id = 0
      /\ \A k \in 1..(i[c] - 1) :
           /\ created[c][k].Id # 0
           /\ created[c][k].Name = cs[c][k].Name
           /\ ByName(cs[c][k].Name) # {}
      /\ stopCalls[c] = <<>>
      /\ killed[c] = {}

\* C7 witness: containerConverge failed for the second spec while a container the
\* converge does not want is running for the app.
C7_Witness ==
  \E c \in Callers :
    /\ pc[c] = "return" /\ err[c] = "containerConverge"
    /\ i[c] = 2 /\ Len(cs[c]) >= 2
    /\ \E d \in docker :
         HasLabels(d, AppLabels(app[c])) /\ d.Id \notin Ids(c)
         /\ d.Labels["convox.type"] # "process"

\* The errors converge returns from the three synthesis functions.
SynthesisErrors ==
  {"unknown resource type", "invalid balancer endpoint", "required env", "unknown stage",
   "can not run background services in test", "system get", "could not find service",
   "no such app", "no such release"}

\* C8: when a synthesis function fails, converge returns the error having called
\* neither containerConverge nor containerRegister nor docker stop.
C8_SynthesisFailure ==
  \A c \in Callers :
    pc[c] = "return" /\ fn[c] = "converge" /\ err[c] \in SynthesisErrors =>
      /\ created[c] = <<>>
      /\ registered[c] = <<>>
      /\ stopCalls[c] = <<>>
      /\ killed[c] = {}
      /\ cs[c] = <<>>

\* C8 witness: the service synthesis failed on a missing required variable, after
\* the resource synthesis succeeded, while containers of the app are running.
C8_Witness ==
  \E c \in Callers :
    /\ pc[c] = "return" /\ fn[c] = "converge" /\ err[c] = "required env"
    /\ current[app[c]] = "R5"
    /\ \E d \in docker : HasLabels(d, AppLabels(app[c])) /\ d.Labels["convox.type"] # "process"

\* C9: an invocation in which a stop failed still returns without error from the
\* end of its stop loop, having run docker stop on every container it selected.
C9_StopFailureIgnored ==
  \A c \in Callers :
    pc[c] = "return" /\ failedStops[c] # {} =>
      /\ err[c] = ""
      /\ fn[c] = "converge" =>
           /\ i[c] = Len(running[c]) + 1
           /\ Range(stopCalls[c]) = (Range(running[c]) \ Ids(c)) \ Range(ps[c])
      /\ fn[c] = "convergePrune" =>
           /\ i[c] = Len(all[c]) + 1
           /\ Range(stopCalls[c]) = Range(all[c]) \ appc[c]

\* C9 witness: the first stop of an invocation failed and a later one ended a
\* container.
C9_Witness ==
  \E c \in Callers :
    /\ pc[c] = "return"
    /\ Len(stopCalls[c]) >= 2
    /\ stopCalls[c][1] \in failedStops[c]
    /\ \E d \in killed[c] : d.Id = stopCalls[c][2]

\* The names of the running containers of the app of c that are no one-off process.
RunningNames(c) ==
  {d.Name : d \in {x \in docker : HasLabels(x, AppLabels(app[c]))
                                   /\ x.Labels["convox.type"] # "process"}}

\* C10: a container whose stop failed in the last successful converge of the app
\* and that is still running is stopped again by the next one at the same release;
\* and a successful converge in which no stop failed leaves the app's running
\* containers other than one-off processes equal, by name, to the desired ones.
C10_Retry ==
  \A c \in Callers :
    /\ SecondConverge(c) =>
         \A x \in last[app[c]].failed : x \in Range(running[c]) => x \in Range(stopCalls[c])
    /\ ConvergeDone(c) /\ failedStops[c] = {} => RunningNames(c) = Names(cs[c])

\* C10 witness: the next converge ends a container whose stop failed in the one
\* before, and leaves exactly the desired containers.
C10_Witness ==
  \E c \in Callers :
    /\ SecondConverge(c)
    /\ \E d \in killed[c] : d.Id \in last[app[c]].failed
    /\ failedStops[c] = {}
    /\ RunningNames(c) = Names(cs[c])

\* The synthesis has been applied to the call's manifest and release.
Synthesized == ret.fn = "synthesize"

\* The values of the label convox.type among the containers of a list.
Types(d) == {d[k].Labels["convox.type"] : k \in DOMAIN d}

\* C11: for stage test, balancerContainers and serviceContainers return an empty
\* list and no error whatever the manifest, and the desired containers, when the
\* resource synthesis succeeds, are the resource containers alone.
C11_TestStage ==
  Synthesized /\ call.stage = StageTest =>
    /\ ret.b = [err |-> "", cs |-> <<>>]
    /\ ret.s = [err |-> "", cs |-> <<>>]
    /\ ret.d.err = ret.rs.err
    /\ ret.d.cs = ret.rs.cs
    /\ Types(ret.d.cs) \subseteq {"resource"}

\* C11 witness: a test-stage synthesis of a manifest with a balancer, two resources
\* and a service with a port and two replicas left the two resource containers.
C11_Witness ==
  /\ Synthesized /\ call.stage = StageTest
  /\ call.balancers # <<>>
  /\ \E k \in DOMAIN call.services :
       call.services[k].Port.Port > 0 /\ call.services[k].Scale.Count.Min = 2
  /\ Len(ret.d.cs) = 2

\* The positions of the replica containers of the service of that name in a list.
ReplicasOf(d, name) ==
  {k \in DOMAIN d : /\ d[k].Labels["convox.type"] = "service"
                    /\ d[k].Labels["convox.service"] = name}

\* C12: when serviceContainers succeeds for a stage other than test, each service
\* with scale minimum n has exactly n containers of type service, with the index
\* labels 1..n, pairwise distinct names and the same image, command, environment
\* and volumes; none for n = 0.
C12_ReplicaFanOut ==
  Synthesized /\ call.stage # StageTest /\ ret.s.err = "" =>
    \A k \in DOMAIN call.services :
      LET s == call.services[k]
          d == ret.s.cs
          ks == ReplicasOf(d, s.Name)
      IN /\ Cardinality(ks) = s.Scale.Count.Min
         /\ {d[x].Labels["convox.index"] : x \in ks} = {Itoa(n) : n \in 1..s.Scale.Count.Min}
         /\ \A x \in ks, y \in ks :
              /\ x # y => d[x].Name # d[y].Name
              /\ d[x].Image = d[y].Image /\ d[x].Command = d[y].Command
              /\ d[x].Env = d[y].Env /\ d[x].Volumes = d[y].Volumes

\* C12 witness: a production synthesis of web at scale 3, with a port and the
\* resource db, and of worker at scale 2: an endpoint container and five replicas.
C12_Witness ==
  /\ Synthesized /\ call.stage = StageProduction /\ ret.s.err = ""
  /\ Len(call.services) = 2
  /\ call.services[1].Scale.Count.Min = 3 /\ call.services[1].Resources = <<"db">>
  /\ call.services[2].Scale.Count.Min = 2
  /\ Cardinality(ReplicasOf(ret.s.cs, "web")) = 3
  /\ Len(ret.s.cs) = 6

\* C13: the desired containers cs of a converge have pairwise distinct names.
C13_DistinctNames ==
  \A c \in Callers :
    fn[c] = "converge" =>
      \A x \in DOMAIN cs[c], y \in DOMAIN cs[c] : x # y => cs[c][x].Name # cs[c][y].Name

\* The specs of a list that have a hostname, in order.
WithHostname(d) == SelectSeq(d, LAMBDA x : x.Hostname # <<>>)

\* C14: every spec containerRegister was called with has a hostname and carries the
\* identifier that containerConverge returned for it before; and a converge that
\* returns without error has registered exactly the specs of cs that have a
\* hostname, in order, each with its identifier, and no replica of a service.
C14_Registered ==
  \A c \in Callers :
    /\ \A k \in DOMAIN registered[c] :
         LET x == registered[c][k]
         IN /\ x.Hostname # <<>>
            /\ x.Id # 0
            /\ x.Labels["convox.type"] # "service"
            /\ \E n \in DOMAIN created[c] :
                 /\ n \in DOMAIN cs[c] /\ cs[c][n] = x
                 /\ created[c][n] = [Name |-> x.Name, Id |-> x.Id]
    /\ ConvergeDone(c) =>
         /\ registered[c] = WithHostname(cs[c])
         /\ \A n \in DOMAIN cs[c] : cs[c][n].Id # 0

\* C14 witness: a converge returns having created a resource container, which it
\* registered, and a service replica, which it did not.
C14_Witness ==
  \E c \in Callers :
    /\ ConvergeDone(c)
    /\ Len(cs[c]) = 2 /\ Len(registered[c]) = 1
    /\ registered[c][1].Labels["convox.type"] = "resource"
    /\ cs[c][2].Labels["convox.type"] = "service" /\ cs[c][2].Hostname = <<>>

\* Service.Env has been applied to the call's service and ambient environment.
Resolved == ret.fn = "Env"

\* The key of an entry K or K=V, and the V of an entry K=V.
KeyOf(entry) == IF IndexEq(entry) = 0 THEN entry ELSE SubSeq(entry, 1, IndexEq(entry) - 1)
ValueOf(entry) == SubSeq(entry, IndexEq(entry) + 1, Len(entry))

\* The positions of the ambient entries K=V for the key.
AmbientAt(amb, key) == {j \in DOMAIN amb : IndexEq(amb[j]) # 0 /\ KeyOf(amb[j]) = key}

\* The ambient environment has an entry K=V for the key.
AmbientHas(amb, key) == AmbientAt(amb, key) # {}

\* The value V of the last ambient entry K=V for the key.
AmbientValue(amb, key) ==
  ValueOf(amb[CHOOSE x \in AmbientAt(amb, key) : \A y \in AmbientAt(amb, key) : y <= x])

\* The declared entries without a default, and those with one.
Required(decl) == {j \in DOMAIN decl : IndexEq(decl[j]) = 0}
Optional(decl) == {j \in DOMAIN decl : IndexEq(decl[j]) # 0}

\* C15: Service.Env fails exactly when a declared entry K without default has no
\* ambient value; when it succeeds, every declared K without default has its
\* ambient value, every declared K=default has the ambient value when there is one
\* and the default otherwise, and no other key is in the result.
C15_EnvResolution ==
  Resolved =>
    LET decl == call.s.Environment
        amb == call.env
        e == ret.e
    IN /\ e.err # "" <=> \E j \in Required(decl) : ~AmbientHas(amb, KeyOf(decl[j]))
       /\ e.err = "" =>
            /\ DOMAIN e.env = {KeyOf(decl[j]) : j \in DOMAIN decl}
            /\ \A j \in Required(decl) :
                 e.env[KeyOf(decl[j])] = AmbientValue(amb, KeyOf(decl[j]))
            /\ \A j \in Optional(decl) :
                 e.env[KeyOf(decl[j])] = IF AmbientHas(amb, KeyOf(decl[j]))
                                         THEN AmbientValue(amb, KeyOf(decl[j]))
                                         ELSE ValueOf(decl[j])

\* C15 witness: a service declaring K without default and L with one resolved K to
\* its ambient value and L to its default, the ambient M left out.
C15_Witness ==
  /\ Resolved /\ ret.e.err = ""
  /\ call.s.Environment = << <<"K">>, <<"L", "=">> >>
  /\ call.env = << <<"M", "=", "x">>, <<"K", "=", "v">> >>
  /\ ret.e.env = (<<"K">> :> <<"v">>) @@ (<<"L">> :> <<>>)

\* The key of the variable injected for the resource of that name: the name in
\* upper case, then _URL.
UrlKey(name) ==
  CASE name = "db" -> <<"DB", "_URL">>
    [] name = "cache" -> <<"CACHE", "_URL">>

\* The service declares an entry for the key.
Declares(s, key) == \E j \in DOMAIN s.Environment : KeyOf(s.Environment[j]) = key

\* C16: when serviceContainers succeeds for a stage other than test, the environment
\* of every replica of a service has, for each resource R of the manifest that the
\* service lists, the key <R uppercased>_URL with the catalog URL of R's type for
\* the app and R's name, whatever the service declares for that key; for a
\* resource the service does not list, the key is there only when the service
\* declares it itself, with the value of that declaration.
C16_ResourceURL ==
  Synthesized /\ call.stage # StageTest /\ ret.s.err = "" =>
    \A k \in DOMAIN call.services :
      LET s == call.services[k]
          d == ret.s.cs
      IN \A x \in ReplicasOf(d, s.Name), q \in DOMAIN call.resources :
           LET res == call.resources[q]
               key == UrlKey(res.Name)
           IN IF \E j \in DOMAIN s.Resources : s.Resources[j] = res.Name
              THEN /\ key \in DOMAIN d[x].Env
                   /\ d[x].Env[key] = resourceURL(call.app, res.Type, res.Name).url
              ELSE key \in DOMAIN d[x].Env =>
                     /\ Declares(s, key)
                     /\ d[x].Env[key] = ServiceEnv(s, call.env).env[key]

\* C16 witness: web declares DB_URL=declared and lists db, a postgres resource, and
\* not cache: its replicas have the postgres URL of db under DB_URL and no
\* CACHE_URL, and the replicas of worker, which lists cache, have CACHE_URL.
C16_Witness ==
  /\ Synthesized /\ call.stage = StageProduction /\ ret.s.err = ""
  /\ Len(call.resources) = 2 /\ Len(call.services) = 2
  /\ call.services[1].Resources = <<"db">>
  /\ Declares(call.services[1], UrlKey("db"))
  /\ \E x \in ReplicasOf(ret.s.cs, "web") :
       /\ ret.s.cs[x].Env[UrlKey("db")] = resourceURL("a1", "postgres", "db").url
       /\ UrlKey("cache") \notin DOMAIN ret.s.cs[x].Env
  /\ \E x \in ReplicasOf(ret.s.cs, "worker") :
       /\ UrlKey("cache") \in DOMAIN ret.s.cs[x].Env
       /\ UrlKey("db") \notin DOMAIN ret.s.cs[x].Env

\* The stages a release can have.
KnownStages == {StageDevelopment, StageTest, StageProduction}

\* C17: a converge of an app whose release has a stage that is none of development,
\* test and production returns an error from the synthesis, whatever the manifest,
\* and calls neither containerConverge nor containerRegister nor docker stop.
C17_UnknownStage ==
  \A c \in Callers :
    fn[c] = "converge" /\ rel[c] # "" /\ Releases[rel[c]].Stage \notin KnownStages =>
      /\ created[c] = <<>>
      /\ registered[c] = <<>>
      /\ stopCalls[c] = <<>>
      /\ pc[c] = "return" => err[c] # ""

\* C18: the text BuildHash hashes is the same for two services exactly when they
\* have the same build path, the same list of build arguments and the same image.
C18_HashInputInjective ==
  ret.fn = "BuildHash" =>
    \A t \in HashServices : BuildHashInput(t) = ret.text <=> t = call.s

\* The first position from n on at which the text has the token, 0 when none.
PosFrom(u, tok, n) ==
  IF \E x \in n..Len(u) : u[x] = tok
  THEN CHOOSE x \in n..Len(u) : u[x] = tok /\ \A y \in n..(x - 1) : u[y] # tok
  ELSE 0

\* The host of a URL scheme://[user@]host:port/path.
UrlHost(u) ==
  LET from == IF PosFrom(u, "@", 1) # 0 THEN PosFrom(u, "@", 1) ELSE PosFrom(u, "://", 1)
  IN SubSeq(u, from + 1, PosFrom(u, ":", from + 1) - 1)

\* The positions of the container of the resource of that name in a list.
ResourceOf(d, name) ==
  {k \in DOMAIN d : /\ d[k].Labels["convox.type"] = "resource"
                    /\ d[k].Labels["convox.name"] = name}

\* C19: in every successful synthesis, the URL a replica has for a resource its
\* service lists has as its host the hostname of that resource's container,
\* <resource-name>.resource.<app>.<rack>.
C19_UrlPointsAtResource ==
  Synthesized /\ call.stage # StageTest /\ ret.d.err = "" =>
    \A k \in DOMAIN call.services, q \in DOMAIN call.resources :
      LET s == call.services[k]
          res == call.resources[q]
          d == ret.d.cs
      IN (\E j \in DOMAIN s.Resources : s.Resources[j] = res.Name) =>
           \A x \in ReplicasOf(d, s.Name), y \in ResourceOf(d, res.Name) :
             /\ d[y].Hostname = <<res.Name, ".resource.", call.app, ".", rack>>
             /\ UrlHost(d[x].Env[UrlKey(res.Name)]) = d[y].Hostname

\* C20: no step of a convergePrune ends a container whose app exists when the step
\* is taken, whatever the other actors do while it runs.
C20_PruneKeepsExistingApps ==
  [][\A c \in Callers :
       fn[c] = "convergePrune" =>
         \A d \in killed'[c] \ killed[c] : d.Labels["convox.app"] \notin store]_vars

====
